---- MODULE Spec2Model ----
(***************************************************************************)
(* Schema discovery of spanner-truncate (truncate/table_schema.go):        *)
(* fetchTableSchemas and fetchIndexSchemas read the catalog through one    *)
(* single-use snapshot query each and turn the row stream into             *)
(* descriptors.  The catalog (INFORMATION_SCHEMA) and the row iterator are *)
(* the environment; the per-row callbacks and the return paths are the     *)
(* code.                                                                   *)
(***************************************************************************)
EXTENDS Integers, Sequences, FiniteSets

\* ------------------------------------------------------------------ bounds

\* Table names of the modelled schemas, in the collation order of
\* ORDER BY T.TABLE_NAME ASC.
NameOrder == <<"A", "B", "C">>

\* Index names of the modelled schemas.
IndexNames == {"I1"}

\* Texts the ON_DELETE_ACTION column may hold when it is not NULL: the two the
\* code knows and one it does not (the comparison is exact, case included).
ActionTexts == {"CASCADE", "NO ACTION", "cascade"}

\* Numbers of referenced columns a foreign key may have: each referenced column
\* is one row of INFORMATION_SCHEMA.CONSTRAINT_COLUMN_USAGE.
FKColumnCounts == {1, 2}

\* Most schema features (a table with a parent or a delete action, a foreign
\* key constraint, a secondary index) a catalog holds.
MaxFeatures == 1

\* Most schema changes other actors make during one behaviour.
MaxSchemaChanges == 2

\* ------------------------------------------------------------ program types

\* deleteActionType (iota constants).
deleteActionUndefined == 0
deleteActionCascadeDelete == 1
deleteActionNoAction == 2

\* spanner.NullString as the code reads it: Valid and StringVal.
NullStr == [Valid |-> FALSE, StringVal |-> ""]
StrOf(s) == [Valid |-> TRUE, StringVal |-> s]

TableNames == {NameOrder[i] : i \in DOMAIN NameOrder}
Rank(n) == CHOOSE i \in DOMAIN NameOrder : NameOrder[i] = n

Range(s) == {s[i] : i \in DOMAIN s}

\* ------------------------------------------------------------------ state

VARIABLES
    catTables,    \* INFORMATION_SCHEMA.TABLES: name -> [parent, action]
    catFKs,       \* foreign key constraints: [from, to, cols] -> how many
    catIndexes,   \* INFORMATION_SCHEMA.INDEXES: name -> [base, parent]
    version,      \* logical timestamp of the schema: number of changes so far
    tcall,        \* the fetchTableSchemas call: inputs, locals, return value
    icall         \* the fetchIndexSchemas call: locals, return value

vars == <<catTables, catFKs, catIndexes, version, tcall, icall>>

\* ---------------------------------------------------------------- catalog

NullStrs(S) == {NullStr} \cup {StrOf(s) : s \in S}

\* Subsets of S with at most k elements.
RECURSIVE SubsetsUpTo(_, _)
SubsetsUpTo(S, k) ==
    IF k <= 0 \/ S = {} THEN {{}}
    ELSE LET x == CHOOSE y \in S : TRUE
             rest == S \ {x}
         IN  SubsetsUpTo(rest, k) \cup {T \cup {x} : T \in SubsetsUpTo(rest, k - 1)}

\* Orderings of a finite set (an unordered row stream).
Perms(S) == {f \in [1..Cardinality(S) -> S] : Range(f) = S}

\* Bags (element -> positive count) and their sizes.
EmptyBag == [x \in {} |-> 0]

RECURSIVE BagSize(_)
BagSize(b) ==
    IF DOMAIN b = {} THEN 0
    ELSE LET x == CHOOSE y \in DOMAIN b : TRUE
         IN  b[x] + BagSize([y \in (DOMAIN b) \ {x} |-> b[y]])

\* Bags over U with at most k elements, copies counted.
RECURSIVE BagsUpTo(_, _)
BagsUpTo(U, k) ==
    IF k <= 0 \/ U = {} THEN {EmptyBag}
    ELSE LET x == CHOOSE y \in U : TRUE
             rest == U \ {x}
         IN  BagsUpTo(rest, k)
             \cup UNION {{[y \in (DOMAIN b) \cup {x} |-> IF y = x THEN n ELSE b[y]]
                            : b \in BagsUpTo(rest, k - n)}
                          : n \in 1..k}

\* Orderings of a bag: the arrays that hold each element as often as the bag.
BagArrays(b) ==
    {f \in [1..BagSize(b) -> DOMAIN b] :
        \A x \in DOMAIN b : Cardinality({i \in DOMAIN f : f[i] = x}) = b[x]}

\* The foreign key constraints between the tables of S: referencing table,
\* referenced table, number of referenced columns.  Two constraints may agree
\* in all three.
FKShapes(S) == [from : S, to : S, cols : FKColumnCounts]

\* What the store enforces of its own schema: a parent table, the ends of a
\* foreign key, an index's table and the table it is interleaved in all exist.
WellFormed(tabs, fks, idx) ==
    /\ \A t \in DOMAIN tabs :
          tabs[t].parent.Valid => tabs[t].parent.StringVal \in (DOMAIN tabs) \ {t}
    /\ \A e \in DOMAIN fks : e.from \in DOMAIN tabs /\ e.to \in DOMAIN tabs
    /\ \A i \in DOMAIN idx :
          /\ idx[i].base \in DOMAIN tabs
          /\ idx[i].parent.Valid => idx[i].parent.StringVal \in DOMAIN tabs

Annotated(tabs) == {t \in DOMAIN tabs : tabs[t].parent.Valid \/ tabs[t].action.Valid}

Features(tabs, fks, idx) ==
    Cardinality(Annotated(tabs)) + BagSize(fks) + Cardinality(DOMAIN idx)

PlainTable == [parent |-> NullStr, action |-> NullStr]

TableAttrs(S) == [parent : NullStrs(S), action : NullStrs(ActionTexts)]

\* Table sets over S in which the tables of An are annotated, the rest plain.
TablesOver(S) ==
    UNION {{f \in [S -> TableAttrs(S)] : \A t \in S \ An : f[t] = PlainTable}
           : An \in SubsetsUpTo(S, MaxFeatures)}

\* The rows of the table query (lines 59-72) at one snapshot: one row per base
\* table, ordered by name; refs[t] is the ARRAY_AGG of the tables referencing t
\* (an empty array when there is none), in the order the store aggregated them.
RECURSIVE SortedNames(_)
SortedNames(S) ==
    IF S = {} THEN <<>>
    ELSE LET m == CHOOSE x \in S : \A y \in S : Rank(x) <= Rank(y)
         IN  <<m>> \o SortedNames(S \ {m})

\* Lines 60-66, FKReferences: TABLE_CONSTRAINTS joined with
\* CONSTRAINT_COLUMN_USAGE on the constraint name has one row per foreign key
\* constraint and referenced column; grouped by referenced table, ARRAY_AGG
\* (no DISTINCT) takes the referencing table's name of every joined row.
\* JoinedRows(fks, t, a) counts the joined rows of group t that name table a;
\* Referencing(fks, t) is the bag ARRAY_AGG aggregates for t.
RECURSIVE JoinedRows(_, _, _)
JoinedRows(fks, t, a) ==
    LET hits == {e \in DOMAIN fks : e.to = t /\ e.from = a}
    IN  IF hits = {} THEN 0
        ELSE LET e == CHOOSE h \in hits : TRUE
             IN  fks[e] * e.cols
                 + JoinedRows([h \in (DOMAIN fks) \ {e} |-> fks[h]], t, a)

Referencing(fks, t) ==
    LET from == {e.from : e \in {h \in DOMAIN fks : h.to = t}}
    IN  [a \in from |-> JoinedRows(fks, t, a)]

\* The Referencing arrays the query may return, one per table.
ReferencingArrays(tabs, fks) ==
    LET arrays == UNION {BagArrays(Referencing(fks, t)) : t \in DOMAIN tabs}
    IN  {refs \in [DOMAIN tabs -> arrays] :
            \A t \in DOMAIN tabs : refs[t] \in BagArrays(Referencing(fks, t))}

TableRows(tabs, refs) ==
    LET names == SortedNames(DOMAIN tabs)
    IN  [i \in 1..Len(names) |->
            [tableName    |-> names[i],
             parent       |-> tabs[names[i]].parent,
             deleteAction |-> tabs[names[i]].action,
             referencedBy |-> refs[names[i]]]]

\* The rows of the index query (lines 142-145) at one snapshot, in the order
\* ord (the query has no ORDER BY).
IndexRows(idx, ord) ==
    [i \in 1..Len(ord) |->
        [indexName     |-> ord[i],
         baseTableName |-> idx[ord[i]].base,
         parent        |-> idx[ord[i]].parent]]

\* ------------------------------------------------- fetchTableSchemas: code

\* Lines 74-85: truncateAll and the two lookup maps (their key sets).
TruncateAll(targetTables, excludeTables) ==
    ~(Len(targetTables) > 0 \/ Len(excludeTables) > 0)

MapKeys(list, filled) == IF filled THEN Range(list) ELSE {}

\* Lines 99-109: whether the callback goes on to append the row.
SelectedBothFilters(truncateAll, targets, excludes, tableName) ==
    truncateAll \/ (tableName \notin excludes /\ (targets = {} \/ tableName \in targets))

SelectedNoTruncateAll(truncateAll, targets, excludes, tableName) ==
    IF excludes # {} THEN tableName \notin excludes ELSE tableName \in targets

SelectedExcludeOnly(truncateAll, targets, excludes, tableName) ==
    truncateAll \/ tableName \notin excludes

Selected(truncateAll, targets, excludes, tableName) ==
    IF ~truncateAll
    THEN IF excludes # {}
         THEN tableName \notin excludes
         ELSE tableName \in targets
    ELSE TRUE

\* Lines 111-114 and 158-161: a NULL parent becomes the empty string.
ParentName(parent) == IF parent.Valid THEN parent.StringVal ELSE ""

\* Lines 116-124: the delete action of the row.
DeleteActionCaseFolded(deleteAction) ==
    IF deleteAction.Valid
    THEN CASE deleteAction.StringVal \in {"CASCADE", "cascade"} -> deleteActionCascadeDelete
           [] deleteAction.StringVal = "NO ACTION" -> deleteActionNoAction
           [] OTHER -> deleteActionUndefined
    ELSE deleteActionUndefined

DeleteActionZeroIsNoAction(deleteAction) ==
    IF deleteAction.Valid
    THEN CASE deleteAction.StringVal = "CASCADE" -> deleteActionCascadeDelete
           [] deleteAction.StringVal = "NO ACTION" -> deleteActionNoAction
           [] OTHER -> deleteActionNoAction
    ELSE deleteActionNoAction

DeleteAction(deleteAction) ==
    IF deleteAction.Valid
    THEN CASE deleteAction.StringVal = "CASCADE" -> deleteActionCascadeDelete
           [] deleteAction.StringVal = "NO ACTION" -> deleteActionNoAction
           [] OTHER -> deleteActionUndefined
    ELSE deleteActionUndefined

\* Lines 126-131: the descriptor appended for a selected row.
TableSchemaDropsRefs(row) ==
    [tableName            |-> row.tableName,
     parentTableName      |-> ParentName(row.parent),
     parentOnDeleteAction |-> DeleteAction(row.deleteAction),
     referencedBy         |-> <<>>]

TableSchemaOf(row) ==
    [tableName            |-> row.tableName,
     parentTableName      |-> ParentName(row.parent),
     parentOnDeleteAction |-> DeleteAction(row.deleteAction),
     referencedBy         |-> row.referencedBy]

\* Lines 163-167: the descriptor appended for an index row.
IndexSchemaSwapped(row) ==
    [indexName       |-> row.baseTableName,
     baseTableName   |-> ParentName(row.parent),
     parentTableName |-> row.indexName]

IndexSchemaOf(row) ==
    [indexName       |-> row.indexName,
     baseTableName   |-> row.baseTableName,
     parentTableName |-> ParentName(row.parent)]

\* ------------------------------------------------------------ the two calls

\* err is "nil", "QueryFailed", "DecodeFailed" or "Canceled".
IdleTables ==
    [phase |-> "idle", targetTables |-> <<>>, excludeTables |-> <<>>,
     truncateAll |-> TRUE, targets |-> {}, excludes |-> {},
     rows |-> <<>>, recv |-> 0, pos |-> 0, tables |-> <<>>, cancelled |-> FALSE,
     snap |-> -1, retTables |-> <<>>, err |-> "nil"]

IdleIndexes ==
    [phase |-> "idle", rows |-> <<>>, recv |-> 0, pos |-> 0, indexes |-> <<>>,
     cancelled |-> FALSE, snap |-> -1, retIndexes |-> <<>>, err |-> "nil"]

\* Lines 57-87: the single-use snapshot query is issued and the locals are set.
\* rows is what the snapshot holds, recv counts the rows the iterator has
\* received from the store, pos the rows it has handed to the callback.
StartFetchTables(targetTables, excludeTables) ==
    /\ tcall.phase = "idle"
    /\ icall.phase # "running"
    /\ \E refs \in ReferencingArrays(catTables, catFKs) :
          /\ LET filled == Len(targetTables) > 0 \/ Len(excludeTables) > 0
             IN  tcall' = [IdleTables EXCEPT
                    !.phase = "running",
                    !.targetTables = targetTables,
                    !.excludeTables = excludeTables,
                    !.truncateAll = TruncateAll(targetTables, excludeTables),
                    !.targets = MapKeys(targetTables, filled),
                    !.excludes = MapKeys(excludeTables, filled),
                    !.rows = TableRows(catTables, refs),
                    !.snap = version]
    /\ UNCHANGED <<catTables, catFKs, catIndexes, version, icall>>

\* Line 88: inside iter.Do the iterator receives the next rows of the stream
\* from the store, some or all of those left.  Nothing more arrives once the
\* context is cancelled.
TableReceive ==
    /\ tcall.phase = "running"
    /\ ~tcall.cancelled
    /\ \E k \in (tcall.recv + 1)..Len(tcall.rows) : tcall' = [tcall EXCEPT !.recv = k]
    /\ UNCHANGED <<catTables, catFKs, catIndexes, version, icall>>

\* Lines 88-132: the callback on the next row, r.Columns succeeding.
TableRowPrepends ==
    /\ tcall.phase = "running"
    /\ tcall.pos < tcall.recv
    /\ LET row == tcall.rows[tcall.pos + 1]
       IN  tcall' = [tcall EXCEPT
              !.pos = @ + 1,
              !.tables = IF Selected(tcall.truncateAll, tcall.targets,
                                     tcall.excludes, row.tableName)
                         THEN <<TableSchemaOf(row)>> \o @
                         ELSE @]
    /\ UNCHANGED <<catTables, catFKs, catIndexes, version, icall>>

TableRow ==
    /\ tcall.phase = "running"
    /\ tcall.pos < tcall.recv
    /\ LET row == tcall.rows[tcall.pos + 1]
       IN  tcall' = [tcall EXCEPT
              !.pos = @ + 1,
              !.tables = IF Selected(tcall.truncateAll, tcall.targets,
                                     tcall.excludes, row.tableName)
                         THEN Append(@, TableSchemaOf(row))
                         ELSE @]
    /\ UNCHANGED <<catTables, catFKs, catIndexes, version, icall>>

\* Lines 95-97 and 133-135: r.Columns fails on the next row; the callback
\* returns the error, iter.Do stops and the call returns nil and the error.
TableRowDecodeError ==
    /\ tcall.phase = "running"
    /\ tcall.pos < tcall.recv
    /\ tcall' = [tcall EXCEPT !.phase = "returned", !.pos = @ + 1,
                              !.retTables = <<>>, !.err = "DecodeFailed"]
    /\ UNCHANGED <<catTables, catFKs, catIndexes, version, icall>>

\* Lines 88, 133-135: the iterator fails instead of yielding (the query or the
\* stream failed, or it observed the cancelled context).
TableIterErrorKeepsRows ==
    /\ tcall.phase = "running"
    /\ tcall' = [tcall EXCEPT
          !.phase = "returned",
          !.retTables = tcall.tables,
          !.err = IF tcall.cancelled THEN "Canceled" ELSE "QueryFailed"]
    /\ UNCHANGED <<catTables, catFKs, catIndexes, version, icall>>

TableIterError ==
    /\ tcall.phase = "running"
    /\ tcall' = [tcall EXCEPT
          !.phase = "returned",
          !.retTables = <<>>,
          !.err = IF tcall.cancelled THEN "Canceled" ELSE "QueryFailed"]
    /\ UNCHANGED <<catTables, catFKs, catIndexes, version, icall>>

\* Lines 133, 137: every row of the stream has been received and handed to the
\* callback, iter.Do returns nil.
TableDoneOnCancel ==
    /\ tcall.phase = "running"
    /\ tcall.pos = Len(tcall.rows) \/ tcall.cancelled
    /\ tcall' = [tcall EXCEPT !.phase = "returned", !.retTables = tcall.tables,
                              !.err = "nil"]
    /\ UNCHANGED <<catTables, catFKs, catIndexes, version, icall>>

TableDone ==
    /\ tcall.phase = "running"
    /\ tcall.pos = Len(tcall.rows)
    /\ tcall' = [tcall EXCEPT !.phase = "returned", !.retTables = tcall.tables,
                              !.err = "nil"]
    /\ UNCHANGED <<catTables, catFKs, catIndexes, version, icall>>

\* The caller's context is cancelled while rows of the stream are still unread.
\* The code never reads ctx itself (lines 88-135): it is the iterator that
\* fails with the cancellation (TableIterError), at once or after handing out
\* the rows it had already received from the store.
CancelTables ==
    /\ tcall.phase = "running"
    /\ tcall.pos < Len(tcall.rows)
    /\ ~tcall.cancelled
    /\ tcall' = [tcall EXCEPT !.cancelled = TRUE]
    /\ UNCHANGED <<catTables, catFKs, catIndexes, version, icall>>

\* Lines 140-147: the index query is issued.
StartFetchIndexes ==
    /\ icall.phase = "idle"
    /\ tcall.phase # "running"
    /\ \E ord \in Perms(DOMAIN catIndexes) :
          icall' = [IdleIndexes EXCEPT !.phase = "running",
                                       !.rows = IndexRows(catIndexes, ord),
                                       !.snap = version]
    /\ UNCHANGED <<catTables, catFKs, catIndexes, version, tcall>>

\* Line 148: the iterator receives the next index rows from the store.
IndexReceive ==
    /\ icall.phase = "running"
    /\ ~icall.cancelled
    /\ \E k \in (icall.recv + 1)..Len(icall.rows) : icall' = [icall EXCEPT !.recv = k]
    /\ UNCHANGED <<catTables, catFKs, catIndexes, version, tcall>>

\* Lines 148-168: the callback on the next index row, r.Columns succeeding.
IndexRow ==
    /\ icall.phase = "running"
    /\ icall.pos < icall.recv
    /\ icall' = [icall EXCEPT !.pos = @ + 1,
                              !.indexes = Append(@, IndexSchemaOf(icall.rows[icall.pos + 1]))]
    /\ UNCHANGED <<catTables, catFKs, catIndexes, version, tcall>>

\* Lines 154-156 and 169-171: r.Columns fails on the next index row.
IndexRowDecodeError ==
    /\ icall.phase = "running"
    /\ icall.pos < icall.recv
    /\ icall' = [icall EXCEPT !.phase = "returned", !.pos = @ + 1,
                              !.retIndexes = <<>>, !.err = "DecodeFailed"]
    /\ UNCHANGED <<catTables, catFKs, catIndexes, version, tcall>>

\* Lines 148, 169-171: the iterator fails instead of yielding.
IndexIterError ==
    /\ icall.phase = "running"
    /\ icall' = [icall EXCEPT
          !.phase = "returned",
          !.retIndexes = <<>>,
          !.err = IF icall.cancelled THEN "Canceled" ELSE "QueryFailed"]
    /\ UNCHANGED <<catTables, catFKs, catIndexes, version, tcall>>

\* Lines 169, 173: the stream is exhausted.
IndexDone ==
    /\ icall.phase = "running"
    /\ icall.pos = Len(icall.rows)
    /\ icall' = [icall EXCEPT !.phase = "returned", !.retIndexes = icall.indexes,
                              !.err = "nil"]
    /\ UNCHANGED <<catTables, catFKs, catIndexes, version, tcall>>

\* The caller's context is cancelled while index rows are still unread.
CancelIndexes ==
    /\ icall.phase = "running"
    /\ icall.pos < Len(icall.rows)
    /\ ~icall.cancelled
    /\ icall' = [icall EXCEPT !.cancelled = TRUE]
    /\ UNCHANGED <<catTables, catFKs, catIndexes, version, tcall>>

\* ------------------------------------------------------------ specifications

\* The include and exclude lists the caller passes.  The code reads a list only
\* through len() and by inserting its elements into a map (lines 75-85), so the
\* lists are taken without repetition and in name order.
TargetLists == {SortedNames(S) : S \in SUBSET TableNames}

Init ==
    /\ \E S \in SUBSET TableNames : catTables \in TablesOver(S)
    /\ catFKs \in BagsUpTo(FKShapes(DOMAIN catTables),
                           MaxFeatures - Cardinality(Annotated(catTables)))
    /\ \E I \in SubsetsUpTo(IndexNames,
                            MaxFeatures - Cardinality(Annotated(catTables))
                                        - BagSize(catFKs)) :
          catIndexes \in [I -> [base : DOMAIN catTables,
                                parent : NullStrs(DOMAIN catTables)]]
    /\ WellFormed(catTables, catFKs, catIndexes)
    /\ version = 0
    /\ tcall = IdleTables
    /\ icall = IdleIndexes

\* One discovery call, of either kind, against a schema nobody changes.
FetchTablesOnce ==
    /\ icall.phase = "idle"
    /\ \E targetTables \in TargetLists, excludeTables \in TargetLists :
          StartFetchTables(targetTables, excludeTables)

FetchIndexesOnce ==
    /\ tcall.phase = "idle"
    /\ StartFetchIndexes

Next ==
    \/ FetchTablesOnce
    \/ TableReceive
    \/ TableRow
    \/ TableRowDecodeError
    \/ TableIterError
    \/ TableDone
    \/ CancelTables
    \/ FetchIndexesOnce
    \/ IndexReceive
    \/ IndexRow
    \/ IndexRowDecodeError
    \/ IndexIterError
    \/ IndexDone
    \/ CancelIndexes

Spec == Init /\ [][Next]_vars

\* ------------------------------------------------- schema changes by others

\* One DDL statement of another actor takes effect: the schema moves to the
\* well-formed catalog (tabs, fks, idx) and its logical time advances.
SchemaChange(tabs, fks, idx) ==
    /\ version < MaxSchemaChanges
    /\ WellFormed(tabs, fks, idx)
    /\ catTables' = tabs
    /\ catFKs' = fks
    /\ catIndexes' = idx
    /\ version' = version + 1
    /\ UNCHANGED <<tcall, icall>>

CreateTable(n, attr) ==
    /\ n \notin DOMAIN catTables
    /\ SchemaChange([t \in (DOMAIN catTables) \cup {n} |->
                        IF t = n THEN attr ELSE catTables[t]],
                    catFKs, catIndexes)

DropTable(n) ==
    /\ n \in DOMAIN catTables
    /\ SchemaChange([t \in (DOMAIN catTables) \ {n} |-> catTables[t]],
                    catFKs, catIndexes)

CreateIndex(i, base, parent) ==
    /\ i \notin DOMAIN catIndexes
    /\ SchemaChange(catTables, catFKs,
                    [j \in (DOMAIN catIndexes) \cup {i} |->
                        IF j = i THEN [base |-> base, parent |-> parent]
                        ELSE catIndexes[j]])

DropIndex(i) ==
    /\ i \in DOMAIN catIndexes
    /\ SchemaChange(catTables, catFKs,
                    [j \in (DOMAIN catIndexes) \ {i} |-> catIndexes[j]])

\* The caller makes the two discovery calls, one after the other in either
\* order, the table call unfiltered, while a migration of other actors creates
\* and drops root tables and indexes.
InitSnap ==
    /\ \E S \in SUBSET TableNames : catTables = [t \in S |-> PlainTable]
    /\ catFKs = EmptyBag
    /\ \E I \in SUBSET IndexNames :
          catIndexes \in [I -> [base : DOMAIN catTables,
                                parent : NullStrs(DOMAIN catTables)]]
    /\ WellFormed(catTables, catFKs, catIndexes)
    /\ version = 0
    /\ tcall = IdleTables
    /\ icall = IdleIndexes

NextSnap ==
    \/ StartFetchTables(<<>>, <<>>)
    \/ TableReceive
    \/ TableRow
    \/ TableRowDecodeError
    \/ TableIterError
    \/ TableDone
    \/ CancelTables
    \/ StartFetchIndexes
    \/ IndexReceive
    \/ IndexRow
    \/ IndexRowDecodeError
    \/ IndexIterError
    \/ IndexDone
    \/ CancelIndexes
    \/ \E n \in TableNames : CreateTable(n, PlainTable)
    \/ \E n \in TableNames : DropTable(n)
    \/ \E i \in IndexNames, base \in TableNames, parent \in NullStrs(TableNames) :
          CreateIndex(i, base, parent)
    \/ \E i \in IndexNames : DropIndex(i)

SpecSnap == InitSnap /\ [][NextSnap]_vars

\* ------------------------------------------------------------------ claims

TablesOK == tcall.phase = "returned" /\ tcall.err = "nil"
IndexesOK == icall.phase = "returned" /\ icall.err = "nil"

NamesOf(tables) == [i \in DOMAIN tables |-> tables[i].tableName]
InResult(T) == \E i \in DOMAIN tcall.retTables : tcall.retTables[i].tableName = T

\* The selection rule in terms of the caller's two lists.
Chosen(T) ==
    IF Len(tcall.excludeTables) > 0 THEN T \notin Range(tcall.excludeTables)
    ELSE IF Len(tcall.targetTables) > 0 THEN T \in Range(tcall.targetTables)
    ELSE TRUE

\* The names of the chosen rows of a row sequence, in its order.
RECURSIVE ChosenNames(_)
ChosenNames(rows) ==
    IF rows = <<>> THEN <<>>
    ELSE (IF Chosen(Head(rows).tableName) THEN <<Head(rows).tableName>> ELSE <<>>)
         \o ChosenNames(Tail(rows))

\* The descriptor d was made from the row r.
FromRow(d, r) == r.tableName = d.tableName

\* C1: with a non-empty exclude list, a base table of the catalog is in the
\* returned collection iff its name is not in the exclude list, whatever the
\* include list holds.
C1_ExcludeDecides ==
    (TablesOK /\ Len(tcall.excludeTables) > 0) =>
        \A T \in DOMAIN catTables : InResult(T) <=> T \notin Range(tcall.excludeTables)

\* include = {A}, exclude = {C} over the schema {A, B, C} has returned {A, B}.
C1_Witness ==
    /\ TablesOK
    /\ tcall.targetTables = <<"A">>
    /\ tcall.excludeTables = <<"C">>
    /\ DOMAIN catTables = {"A", "B", "C"}
    /\ NamesOf(tcall.retTables) = <<"A", "B">>

\* C2: with an empty exclude list and a non-empty include list, a base table of
\* the catalog is in the returned collection iff its name is in the include list.
C2_IncludeDecides ==
    (TablesOK /\ Len(tcall.excludeTables) = 0 /\ Len(tcall.targetTables) > 0) =>
        \A T \in DOMAIN catTables : InResult(T) <=> T \in Range(tcall.targetTables)

\* include = {A, B}, exclude = {} over the schema {A, B, C} has returned {A, B}.
C2_Witness ==
    /\ TablesOK
    /\ tcall.targetTables = <<"A", "B">>
    /\ tcall.excludeTables = <<>>
    /\ DOMAIN catTables = {"A", "B", "C"}
    /\ NamesOf(tcall.retTables) = <<"A", "B">>

\* C3: with both lists empty, a call that returns no error returns exactly one
\* descriptor per base table of the catalog, in ascending order of table name.
C3_AllTablesInNameOrder ==
    (TablesOK /\ Len(tcall.targetTables) = 0 /\ Len(tcall.excludeTables) = 0) =>
        NamesOf(tcall.retTables) = SortedNames(DOMAIN catTables)

C3_Witness ==
    /\ TablesOK
    /\ tcall.targetTables = <<>>
    /\ tcall.excludeTables = <<>>
    /\ NamesOf(tcall.retTables) = <<"A", "B", "C">>

\* C4: a call of either kind that returns an error returns the nil collection,
\* also when descriptors had been appended before the failure, and a call that
\* returns no error returns as many descriptors as the complete stream has
\* selected rows.
C4_ErrorMeansNoCollection ==
    /\ (tcall.phase = "returned" /\ tcall.err # "nil") => tcall.retTables = <<>>
    /\ (icall.phase = "returned" /\ icall.err # "nil") => icall.retIndexes = <<>>
    /\ TablesOK =>
          Len(tcall.retTables) =
              Cardinality({i \in DOMAIN tcall.rows : Chosen(tcall.rows[i].tableName)})
    /\ IndexesOK => Len(icall.retIndexes) = Len(icall.rows)

\* A row failed to decode after two descriptors had been appended.
C4_Witness ==
    /\ tcall.phase = "returned"
    /\ tcall.err = "DecodeFailed"
    /\ Len(tcall.tables) = 2
    /\ tcall.retTables = <<>>

\* C5 as claimed (a decode failure of a later row set aside, which only weakens
\* the statement): a call whose context was cancelled while rows were unread
\* returns the cancellation error and no collection.
C5_CancelAlwaysFails ==
    /\ (tcall.phase = "returned" /\ tcall.cancelled /\ tcall.err # "DecodeFailed") =>
          (tcall.err = "Canceled" /\ tcall.retTables = <<>>)
    /\ (icall.phase = "returned" /\ icall.cancelled /\ icall.err # "DecodeFailed") =>
          (icall.err = "Canceled" /\ icall.retIndexes = <<>>)

\* C5 as amended: a call whose context was cancelled while rows were unread
\* returns either an error and no collection, or no error and the complete
\* selection of the stream; never no error and only a part of it.
C5_CancelNeverTruncates ==
    /\ (tcall.phase = "returned" /\ tcall.cancelled) =>
          \/ tcall.err # "nil" /\ tcall.retTables = <<>>
          \/ tcall.err = "nil" /\ NamesOf(tcall.retTables) = ChosenNames(tcall.rows)
    /\ (icall.phase = "returned" /\ icall.cancelled) =>
          \/ icall.err # "nil" /\ icall.retIndexes = <<>>
          \/ /\ icall.err = "nil"
             /\ [i \in DOMAIN icall.retIndexes |-> icall.retIndexes[i].indexName]
                    = [i \in DOMAIN icall.rows |-> icall.rows[i].indexName]

\* The context was cancelled when the rows had been received but not all read,
\* and the call still returned every selected row without an error.
C5_Witness ==
    /\ TablesOK
    /\ tcall.cancelled
    /\ Len(tcall.retTables) >= 2
    /\ NamesOf(tcall.retTables) = ChosenNames(tcall.rows)

\* C6 as claimed: whenever the unfiltered table call and the index call have
\* both returned, in either order and with schema changes in between, every
\* present parentTableName of an index descriptor is a tableName of the table
\* result.
C6_IndexParentAlwaysDiscovered ==
    (TablesOK /\ IndexesOK /\ Len(tcall.targetTables) = 0 /\ Len(tcall.excludeTables) = 0) =>
        \A j \in DOMAIN icall.retIndexes :
            icall.retIndexes[j].parentTableName # "" =>
                InResult(icall.retIndexes[j].parentTableName)

\* C6 as amended: the same, for two reads that observed the schema at the same
\* logical time (no schema change took effect between them).
C6_IndexParentDiscoveredAtSameSnapshot ==
    (/\ TablesOK
     /\ IndexesOK
     /\ Len(tcall.targetTables) = 0
     /\ Len(tcall.excludeTables) = 0
     /\ tcall.snap = icall.snap) =>
        \A j \in DOMAIN icall.retIndexes :
            icall.retIndexes[j].parentTableName # "" =>
                InResult(icall.retIndexes[j].parentTableName)

\* Both reads were made after a schema change, at the same logical time, and
\* the index result holds an interleaved index.
C6_Witness ==
    /\ TablesOK
    /\ IndexesOK
    /\ tcall.snap = icall.snap
    /\ tcall.snap > 0
    /\ \E j \in DOMAIN icall.retIndexes :
          /\ icall.retIndexes[j].parentTableName # ""
          /\ InResult(icall.retIndexes[j].parentTableName)

\* C7 as claimed: a returned descriptor whose row has a NULL parent has an
\* empty parentTableName and deleteActionUndefined, whatever ON_DELETE_ACTION
\* holds.
C7_NoParentMeansUndefined ==
    TablesOK =>
        \A j \in DOMAIN tcall.retTables, i \in DOMAIN tcall.rows :
            (FromRow(tcall.retTables[j], tcall.rows[i]) /\ ~tcall.rows[i].parent.Valid) =>
                /\ tcall.retTables[j].parentTableName = ""
                /\ tcall.retTables[j].parentOnDeleteAction = deleteActionUndefined

\* C7 as amended: a returned descriptor whose row has a NULL parent has an
\* empty parentTableName, and its parentOnDeleteAction follows ON_DELETE_ACTION
\* alone: deleteActionUndefined exactly when that column is NULL or holds a
\* text other than "CASCADE" and "NO ACTION".
C7_NoParentActionFromColumn ==
    TablesOK =>
        \A j \in DOMAIN tcall.retTables, i \in DOMAIN tcall.rows :
            (FromRow(tcall.retTables[j], tcall.rows[i]) /\ ~tcall.rows[i].parent.Valid) =>
                /\ tcall.retTables[j].parentTableName = ""
                /\ tcall.retTables[j].parentOnDeleteAction = deleteActionUndefined
                     <=> ~(/\ tcall.rows[i].deleteAction.Valid
                           /\ tcall.rows[i].deleteAction.StringVal \in {"CASCADE", "NO ACTION"})

\* A root table with a NULL ON_DELETE_ACTION was returned with an empty parent
\* and deleteActionUndefined.
C7_Witness ==
    /\ TablesOK
    /\ \E j \in DOMAIN tcall.retTables, i \in DOMAIN tcall.rows :
          /\ FromRow(tcall.retTables[j], tcall.rows[i])
          /\ ~tcall.rows[i].parent.Valid
          /\ ~tcall.rows[i].deleteAction.Valid
          /\ tcall.retTables[j].parentTableName = ""
          /\ tcall.retTables[j].parentOnDeleteAction = deleteActionUndefined

\* C8: the parentOnDeleteAction of every appended descriptor is
\* deleteActionCascadeDelete iff ON_DELETE_ACTION is non-NULL and exactly
\* "CASCADE", deleteActionNoAction iff it is non-NULL and exactly "NO ACTION",
\* and deleteActionUndefined for NULL and for every other text.
C8_DeleteActionDecoding ==
    \A j \in DOMAIN tcall.tables, i \in DOMAIN tcall.rows :
        FromRow(tcall.tables[j], tcall.rows[i]) =>
            LET typ == tcall.tables[j].parentOnDeleteAction
                col == tcall.rows[i].deleteAction
            IN  /\ typ = deleteActionCascadeDelete
                     <=> (col.Valid /\ col.StringVal = "CASCADE")
                /\ typ = deleteActionNoAction
                     <=> (col.Valid /\ col.StringVal = "NO ACTION")
                /\ typ = deleteActionUndefined
                     <=> (~col.Valid \/ col.StringVal \notin {"CASCADE", "NO ACTION"})

\* A row whose ON_DELETE_ACTION is "cascade" was appended as
\* deleteActionUndefined.
C8_Witness ==
    \E j \in DOMAIN tcall.tables, i \in DOMAIN tcall.rows :
        /\ FromRow(tcall.tables[j], tcall.rows[i])
        /\ tcall.rows[i].deleteAction.Valid
        /\ tcall.rows[i].deleteAction.StringVal = "cascade"
        /\ tcall.tables[j].parentOnDeleteAction = deleteActionUndefined

\* C9: for every include and exclude list, the descriptors appended so far are
\* the chosen rows of the rows read so far, in the order of the stream, and a
\* returned collection is strictly ascending by tableName.
C9_ResultIsOrderedSubsequence ==
    /\ tcall.phase = "running" =>
          NamesOf(tcall.tables) = ChosenNames(SubSeq(tcall.rows, 1, tcall.pos))
    /\ TablesOK =>
          /\ NamesOf(tcall.retTables) = ChosenNames(tcall.rows)
          /\ \A i, j \in DOMAIN tcall.retTables :
                i < j => Rank(tcall.retTables[i].tableName)
                            < Rank(tcall.retTables[j].tableName)

\* The middle table was filtered out and the two others returned in order.
C9_Witness ==
    /\ TablesOK
    /\ tcall.excludeTables = <<"B">>
    /\ NamesOf(tcall.retTables) = <<"A", "C">>

\* C10: the selection never touches the relationship fields: the referencedBy
\* and the parentTableName of every appended descriptor are those of its row,
\* whichever lists were given.
C10_RelationsCopiedUnfiltered ==
    \A j \in DOMAIN tcall.tables, i \in DOMAIN tcall.rows :
        FromRow(tcall.tables[j], tcall.rows[i]) =>
            /\ tcall.tables[j].referencedBy = tcall.rows[i].referencedBy
            /\ tcall.tables[j].parentTableName =
                  (IF tcall.rows[i].parent.Valid
                   THEN tcall.rows[i].parent.StringVal ELSE "")

\* A filtered call returned a descriptor whose referencedBy names, twice (one
\* foreign key over two columns), a table that is not in the returned
\* collection.
C10_Witness ==
    /\ TablesOK
    /\ Len(tcall.targetTables) > 0 \/ Len(tcall.excludeTables) > 0
    /\ \E j \in DOMAIN tcall.retTables :
          LET by == tcall.retTables[j].referencedBy
          IN  /\ Len(by) = 2
              /\ by[1] = by[2]
              /\ ~InResult(by[1])

====
